---- MODULE Spec2Model ----
(***************************************************************************)
(* Model of the supermarket agent's HTTP tools (src/tools/http_tools.py):  *)
(* the stock/price Normalizer of estoque_preco, the pair Extractor, Scorer *)
(* and Ranker of ean_lookup, and the error handling of the five gateway    *)
(* functions; and of the agent's entry points that use them                *)
(* (src/agent_langgraph_simple.py): pedidos_tool and run_agent_langgraph.  *)
(*                                                                         *)
(* A Python str is a sequence of one-character strings.  An accented or    *)
(* upper-case character is written as a named atom ("A", "a_acute").       *)
(* A Python value is a record with a tag t:                                *)
(*   int [t, n]   float [t, m, e] (the decimal m / 10^e)   str [t, s]      *)
(*   bool [t, b]  None [t]        dict [t, f] (ordered <<key, value>>s)    *)
(*   list [t, a]                                                           *)
(* An optional string (None or a str) is <<>> or <<s>>.                    *)
(***************************************************************************)
EXTENDS Integers, Sequences, FiniteSets, TLC

VARIABLES
    qtyOrder,   \* iteration order of the set STOCK_QTY_KEYS in this process
    call,       \* the gateway call made last: function, arguments, response
    ret,        \* what that call gave back: a returned string or a raised exception
    sent,       \* outbound requests that call issued
    marked,     \* telephones that call passed to mark_order_sent, in order
    history     \* messages that call appended to the chat history, in order

vars == <<qtyOrder, call, ret, sent, marked, history>>

----------------------------------------------------------------------------
(* Characters and decimal numbers *)

Digits == {"0", "1", "2", "3", "4", "5", "6", "7", "8", "9"}

DigitVal(c) ==
    CASE c = "0" -> 0 [] c = "1" -> 1 [] c = "2" -> 2 [] c = "3" -> 3
      [] c = "4" -> 4 [] c = "5" -> 5 [] c = "6" -> 6 [] c = "7" -> 7
      [] c = "8" -> 8 [] c = "9" -> 9

DigitChar(n) == CHOOSE c \in Digits : DigitVal(c) = n

Whitespace == {" ", "\n"}

RECURSIVE Pow10(_)
Pow10(e) == IF e = 0 THEN 1 ELSE 10 * Pow10(e - 1)

RECURSIVE NatChars(_)
NatChars(n) ==
    IF n < 10 THEN <<DigitChar(n)>>
    ELSE NatChars(n \div 10) \o <<DigitChar(n % 10)>>

RECURSIVE NatOf(_)
NatOf(ds) ==
    IF ds = <<>> THEN 0
    ELSE 10 * NatOf(SubSeq(ds, 1, Len(ds) - 1)) + DigitVal(ds[Len(ds)])

Abs(n) == IF n < 0 THEN 0 - n ELSE n

\* A decimal m / 10^e in lowest form; ok = FALSE stands for "no number".
RECURSIVE Dec(_, _)
Dec(m, e) ==
    IF e > 0 /\ m % 10 = 0 THEN Dec(m \div 10, e - 1)
    ELSE [ok |-> TRUE, m |-> m, e |-> e]

NoNumber == [ok |-> FALSE, m |-> 0, e |-> 0]

----------------------------------------------------------------------------
(* Python values *)

PyInt(n) == [t |-> "int", n |-> n]
PyFloat(d) == [t |-> "float", m |-> d.m, e |-> d.e]
PyStr(s) == [t |-> "str", s |-> s]
PyBool(b) == [t |-> "bool", b |-> b]
PyNone == [t |-> "none"]
PyDict(f) == [t |-> "dict", f |-> f]
PyList(a) == [t |-> "list", a |-> a]

\* str.count(c)
RECURSIVE Count(_, _)
Count(s, c) ==
    IF s = <<>> THEN 0
    ELSE (IF Head(s) = c THEN 1 ELSE 0) + Count(Tail(s), c)

\* str.replace(a, b) for a one-character a; b is a str (possibly empty)
RECURSIVE Replace(_, _, _)
Replace(s, a, b) ==
    IF s = <<>> THEN <<>>
    ELSE (IF Head(s) = a THEN b ELSE <<Head(s)>>) \o Replace(Tail(s), a, b)

RECURSIVE LStrip(_)
LStrip(s) ==
    IF s # <<>> /\ Head(s) \in Whitespace THEN LStrip(Tail(s)) ELSE s

RECURSIVE RStrip(_)
RStrip(s) ==
    IF s # <<>> /\ s[Len(s)] \in Whitespace
    THEN RStrip(SubSeq(s, 1, Len(s) - 1)) ELSE s

\* str.strip()
Strip(s) == RStrip(LStrip(s))

AllIn(s, S) == \A i \in 1..Len(s) : s[i] \in S

\* str(v).  A float prints with at least one decimal; the text of a dict or a
\* list is cut to its brackets (it only ever feeds float(), which rejects it).
PyStrOf(v) ==
    CASE v.t = "str" -> v.s
      [] v.t = "int" ->
            (IF v.n < 0 THEN <<"-">> ELSE <<>>) \o NatChars(Abs(v.n))
      [] v.t = "float" ->
            LET a == Abs(v.m)
                ip == a \div Pow10(v.e)
                fp == a % Pow10(v.e)
                fd == NatChars(fp)
                pad == [i \in 1..(v.e - Len(fd)) |-> "0"]
            IN  (IF v.m < 0 THEN <<"-">> ELSE <<>>) \o NatChars(ip) \o <<".">>
                    \o (IF v.e = 0 THEN <<"0">> ELSE pad \o fd)
      [] v.t = "bool" ->
            IF v.b THEN <<"T", "r", "u", "e">> ELSE <<"F", "a", "l", "s", "e">>
      [] v.t = "none" -> <<"N", "o", "n", "e">>
      [] v.t = "dict" -> <<"{", "}">>
      [] v.t = "list" -> <<"[", "]">>

\* float(s) on the characters modelled here: surrounding whitespace, a sign,
\* digits with at most one "."; anything else raises ValueError (NoNumber).
\* (Exponents, inf/nan and "_" separators are outside the modelled alphabet.)
PyFloatOf(s) ==
    LET b == Strip(s)
        signed == b # <<>> /\ Head(b) \in {"-", "+"}
        u == IF signed THEN Tail(b) ELSE b
        dot == IF \E i \in 1..Len(u) : u[i] = "."
               THEN CHOOSE i \in 1..Len(u) : u[i] = "." /\ \A j \in 1..(i-1) : u[j] # "."
               ELSE Len(u) + 1
        ip == SubSeq(u, 1, dot - 1)
        fp == SubSeq(u, dot + 1, Len(u))
        mag == NatOf(ip \o fp)
    IN  IF AllIn(ip, Digits) /\ AllIn(fp, Digits) /\ Len(ip) + Len(fp) > 0
        THEN Dec(IF signed /\ Head(b) = "-" THEN 0 - mag ELSE mag, Len(fp))
        ELSE NoNumber

----------------------------------------------------------------------------
(* estoque_preco: the Normalizer *)

PRICE_KEYS ==
    <<"vl_produto", "vl_produto_normal", "preco", "preco_venda", "valor",
      "valor_unitario", "preco_unitario", "atacadoPreco">>

STOCK_QTY_KEYS ==
    {"estoque", "qtd", "qtde", "qtd_estoque", "quantidade", "quantidade_disponivel",
     "quantidadeDisponivel", "qtdDisponivel", "qtdEstoque", "estoqueAtual", "saldo",
     "qty", "quantity", "stock", "amount", "qtd_produto", "qtd_movimentacao"}

\* The quantity aliases the modelled upstream records use.  STOCK_QTY_KEYS is a
\* Python set of str: its iteration order is fixed within a process and differs
\* between processes (hash randomisation); qtyOrder is that order, restricted
\* to the aliases in use.
QtyKeysUsed == {"estoque", "quantidade"}

QtyOrders ==
    {o \in [1..Cardinality(QtyKeysUsed) -> QtyKeysUsed] :
        \A i, j \in DOMAIN o : i # j => o[i] # o[j]}

\* k in d, d.get(k) for a dict's ordered fields f
HasKey(f, k) == \E i \in 1..Len(f) : f[i][1] = k
Get(f, k) == f[CHOOSE i \in 1..Len(f) : f[i][1] = k][2]

\* d[k] = v: an existing key keeps its place, a new key goes last
DictSet(f, k, v) ==
    IF HasKey(f, k)
    THEN [i \in 1..Len(f) |-> IF f[i][1] = k THEN <<k, v>> ELSE f[i]]
    ELSE Append(f, <<k, v>>)

\* _parse_float(val): NoNumber stands for None
ParseFloat(val) ==
    LET s == Strip(PyStrOf(val))
    IN  IF s = <<>> THEN NoNumber
        ELSE PyFloatOf(IF Count(s, ",") = 1 /\ Count(s, ".") > 1
                       THEN Replace(Replace(s, ".", <<>>), ",", <<".">>)
                       ELSE Replace(s, ",", <<".">>))

\* float(str(v).replace(",", ".")), NoNumber when it raises
QtyFloat(v) == PyFloatOf(Replace(PyStrOf(v), ",", <<".">>))

RECURSIVE HasPositiveQtyFrom(_, _, _)
HasPositiveQtyFrom(f, order, i) ==
    IF i > Len(order) THEN FALSE
    ELSE IF HasKey(f, order[i]) /\ QtyFloat(Get(f, order[i])).ok
                                /\ QtyFloat(Get(f, order[i])).m > 0
         THEN TRUE
         ELSE HasPositiveQtyFrom(f, order, i + 1)

\* _has_positive_qty(d)
HasPositiveQty(f, order) == HasPositiveQtyFrom(f, order, 1)

Contains(s, sub) ==
    \E i \in 1..(Len(s) - Len(sub) + 1) : SubSeq(s, i, i + Len(sub) - 1) = sub

STATUS_KEYS == <<"situacao", "situacaoEstoque", "status", "statusEstoque">>

StatusWords ==
    {<<"d", "i", "s", "p", "o", "n">>,
     <<"e", "m", " ", "e", "s", "t", "o", "q", "u", "e">>,
     <<"i", "n", " ", "s", "t", "o", "c", "k">>,
     <<"a", "t", "i", "v", "o">>}

UpperLetters ==
    <<"A", "B", "C", "D", "E", "F", "G", "H", "I", "J", "K", "L", "M",
      "N", "O", "P", "Q", "R", "S", "T", "U", "V", "W", "X", "Y", "Z">>

LowerLetters ==
    <<"a", "b", "c", "d", "e", "f", "g", "h", "i", "j", "k", "l", "m",
      "n", "o", "p", "q", "r", "s", "t", "u", "v", "w", "x", "y", "z">>

\* The accented letters of the samples:
\* <<upper, lower, upper without the accent, lower without the accent>>
Accented ==
    {<<"A_tilde", "a_tilde", "A", "a">>, <<"C_cedilla", "c_cedilla", "C", "c">>,
     <<"U_acute", "u_acute", "U", "u">>, <<"E_acute", "e_acute", "E", "e">>,
     <<"A_acute", "a_acute", "A", "a">>}

\* str.lower() on the modelled characters
LowerChar(c) ==
    IF \E i \in 1..Len(UpperLetters) : UpperLetters[i] = c
    THEN LowerLetters[CHOOSE i \in 1..Len(UpperLetters) : UpperLetters[i] = c]
    ELSE IF \E a \in Accented : a[1] = c
    THEN (CHOOSE a \in Accented : a[1] = c)[2]
    ELSE c

Lower(s) == [i \in 1..Len(s) |-> LowerChar(s[i])] \o <<>>

\* _status_available(d): defined by the code and called by nothing
StatusAvailable(f) ==
    \E i \in 1..Len(STATUS_KEYS) :
        /\ HasKey(f, STATUS_KEYS[i])
        /\ Get(f, STATUS_KEYS[i]).t = "str"
        /\ \E w \in StatusWords : Contains(Lower(Strip(Get(f, STATUS_KEYS[i]).s)), w)

MutIsAvailable(f, order) == HasPositiveQty(f, order) \/ StatusAvailable(f)

\* _is_available(d)
IsAvailable(f, order) == HasPositiveQty(f, order)

\* _extract_qty(d): the first alias, in the set's order, that parses
RECURSIVE ExtractQtyFrom(_, _, _)
ExtractQtyFrom(f, order, i) ==
    IF i > Len(order) THEN NoNumber
    ELSE IF HasKey(f, order[i]) /\ QtyFloat(Get(f, order[i])).ok
         THEN QtyFloat(Get(f, order[i]))
         ELSE ExtractQtyFrom(f, order, i + 1)

ExtractQty(f, order) == ExtractQtyFrom(f, order, 1)

\* _extract_price(d): the first price alias, in PRICE_KEYS order, that parses
RECURSIVE ExtractPriceFrom(_, _)
ExtractPriceFrom(f, i) ==
    IF i > Len(PRICE_KEYS) THEN NoNumber
    ELSE IF HasKey(f, PRICE_KEYS[i]) /\ ParseFloat(Get(f, PRICE_KEYS[i])).ok
         THEN ParseFloat(Get(f, PRICE_KEYS[i]))
         ELSE ExtractPriceFrom(f, i + 1)

ExtractPrice(f) == ExtractPriceFrom(f, 1)

IsQtyField(p) == p[1] \in STOCK_QTY_KEYS
NotQtyField(p) == p[1] \notin STOCK_QTY_KEYS

MutStripQty(f) == SelectSeq(f, LAMBDA p : NotQtyField(p) /\ p[1] # "status")

\* clean = {k: v for k, v in it.items() if k not in STOCK_QTY_KEYS}
StripQty(f) == SelectSeq(f, NotQtyField)

\* The body of the sanitize loop for one kept record
Clean(f, order) ==
    LET c0 == StripQty(f)
        c1 == IF HasKey(c0, "disponibilidade") THEN c0
              ELSE Append(c0, <<"disponibilidade", PyBool(TRUE)>>)
        price == ExtractPrice(f)
        c2 == IF price.ok THEN DictSet(c1, "preco", PyFloat(price)) ELSE c1
        qty == ExtractQty(f, order)
    IN  IF qty.ok THEN DictSet(c2, "quantidade", PyFloat(qty)) ELSE c2

\* The sanitize loop: the list `sanitized`
RECURSIVE Sanitize(_, _)
Sanitize(items, order) ==
    IF items = <<>> THEN <<>>
    ELSE LET it == Head(items)
             rest == Sanitize(Tail(items), order)
         IN  IF it.t # "dict" THEN rest
             ELSE IF ~IsAvailable(it.f, order) THEN rest
             ELSE <<PyDict(Clean(it.f, order))>> \o rest

\* items = data if isinstance(data, list) else ([data] if isinstance(data, dict) else [])
ItemsOf(data) ==
    IF data.t = "list" THEN data.a
    ELSE IF data.t = "dict" THEN <<data>> ELSE <<>>

\* The Normalizer: from the decoded payload to the list that is serialised
Normalize(data, order) == Sanitize(ItemsOf(data), order)

----------------------------------------------------------------------------
(* The outbound request and what a gateway gives back *)

Timeout == [kind |-> "timeout"]           \* requests.exceptions.Timeout
ConnError == [kind |-> "connerr"]         \* requests.exceptions.ConnectionError
NoRequest == [kind |-> "none"]            \* the call never reached the network

JsonBody(data) == [json |-> TRUE, data |-> data]
TextBody(text) == [json |-> FALSE, text |-> text]
Http(status, body) == [kind |-> "http", status |-> status, body |-> body]

\* response.raise_for_status() raises HTTPError
IsHttpError(resp) == resp.status >= 400

NoCall == [fn |-> "none"]
NoResult == [out |-> "none"]

Returned(tag, body) == [out |-> "return", tag |-> tag, body |-> body]
Raised(exc) == [out |-> "raise", tag |-> exc, body |-> PyNone]

----------------------------------------------------------------------------
(* Sample strings and upstream stock records *)

Txt0 == <<"0">>
Txt5 == <<"5">>
Txt2c5 == <<"2", ",", "5">>
TxtAbc == <<"a", "b", "c">>
Txt12c50 == <<"1", "2", ",", "5", "0">>
Txt1p234c56 == <<"1", ".", "2", "3", "4", ",", "5", "6">>
Txt12p50 == <<"1", "2", ".", "5", "0">>
TxtArroz == <<"A", "r", "r", "o", "z">>
TxtDisponivel == <<"D", "i", "s", "p", "o", "n", "i", "v", "e", "l">>
TxtErr == <<"e", "r", "r">>

Absent == [t |-> "absent"]

\* One dict entry, or none when the value is Absent
Field(k, v) == IF v = Absent THEN <<>> ELSE <<<<k, v>>>>

\* Records that vary the quantity aliases, all with a status saying "available"
QtyRecords ==
    {PyDict(Field("nome", PyStr(TxtArroz)) \o Field("estoque", q1)
            \o Field("status", PyStr(TxtDisponivel)) \o Field("quantidade", q2)) :
        q1 \in {Absent, PyInt(0), PyStr(Txt5)},
        q2 \in {Absent, PyInt(5), PyStr(Txt0)}}

\* Records in stock that vary the price aliases
PriceRecord(p2, p1) ==
    PyDict(Field("estoque", PyStr(Txt2c5)) \o Field("preco", p2) \o Field("vl_produto", p1))

PriceRecords ==
    {PriceRecord(p2, Absent) :
        p2 \in {Absent, PyStr(Txt12c50), PyStr(Txt1p234c56), PyStr(Txt12p50)}}
        \cup {PriceRecord(PyStr(Txt12c50), PyInt(10)), PriceRecord(PyStr(Txt12p50), PyStr(TxtAbc))}

OtherItems ==
    {PyDict(<<<<"quantidade", PyFloat(Dec(25, 1))>>, <<"disponibilidade", PyBool(FALSE)>>,
              <<"estoque", PyStr(TxtAbc)>>>>),
     PyStr(Txt5)}

StockItems == QtyRecords \cup PriceRecords \cup OtherItems

MaxItems == 2

RECURSIVE SeqsUpTo(_, _)
SeqsUpTo(S, n) ==
    IF n = 0 THEN {<<>>}
    ELSE LET shorter == SeqsUpTo(S, n - 1)
         IN  shorter \cup {Append(q, x) : q \in {r \in shorter : Len(r) = n - 1}, x \in S}

\* Decoded payloads of the price/stock endpoint: an array, one object, a scalar
StockPayloads ==
    {PyList(a) : a \in SeqsUpTo(StockItems, MaxItems)}
        \cup QtyRecords \cup {PyInt(5), PyNone}

StockResponses ==
    {Timeout, ConnError, Http(500, TextBody(TxtErr)), Http(404, JsonBody(PyDict(<<>>))),
     Http(200, TextBody(TxtErr))}
        \cup {Http(200, JsonBody(d)) : d \in StockPayloads}

\* settings.estoque_ean_base_url: unset, blank, a lone slash, a URL
BaseUrls == {<<>>, <<<<" ">>>>, <<<<"/">>>>, <<<<"h", "/">>>>}

EanArgs == {<<"7", "-", "9">>, <<"a", "b">>, <<>>}

RECURSIVE RStripSlash(_)
RStripSlash(s) ==
    IF s # <<>> /\ s[Len(s)] = "/" THEN RStripSlash(SubSeq(s, 1, Len(s) - 1)) ELSE s

\* (x or "") for an optional str
OrEmpty(o) == IF o = <<>> THEN <<>> ELSE o[1]

IsDigit(c) == c \in Digits

----------------------------------------------------------------------------
(* estoque_preco *)

EstoquePrecoBase(base) == RStripSlash(Strip(OrEmpty(base)))
EstoquePrecoDigits(ean) == SelectSeq(ean, IsDigit)

MutEstoquePrecoSends(base, ean) == EstoquePrecoBase(base) # <<>>

\* Whether the call gets as far as requests.get
EstoquePrecoSends(base, ean) ==
    EstoquePrecoBase(base) # <<>> /\ EstoquePrecoDigits(ean) # <<>>

\* json.JSONDecodeError from resp.json() is taken here to be the class requests
\* raises (requests.exceptions.JSONDecodeError derives from it).
EstoquePrecoRet(base, ean, resp, order) ==
    IF EstoquePrecoBase(base) = <<>>
        THEN Returned("Erro: ESTOQUE_EAN_BASE_URL nao configurado no .env", PyNone)
    ELSE IF EstoquePrecoDigits(ean) = <<>>
        THEN Returned("Erro: EAN invalido. Informe apenas numeros.", PyNone)
    ELSE IF resp.kind = "timeout"
        THEN Returned("Erro: Timeout ao consultar preco/estoque por EAN. Tente novamente.", PyNone)
    ELSE IF resp.kind = "connerr"
        THEN Returned("Erro ao consultar EAN", PyNone)
    ELSE IF IsHttpError(resp)
        THEN Returned("Erro HTTP ao consultar EAN", PyInt(resp.status))
    ELSE IF ~resp.body.json
        THEN Returned("text", PyStr(resp.body.text))
    ELSE Returned("json", PyList(Normalize(resp.body.data, order)))

EstoquePreco ==
    /\ call = NoCall
    /\ \E base \in BaseUrls, ean \in EanArgs :
        \E resp \in (IF EstoquePrecoSends(base, ean) THEN StockResponses ELSE {NoRequest}) :
            /\ call' = [fn |-> "estoque_preco", base |-> base, ean |-> ean, resp |-> resp]
            /\ ret' = EstoquePrecoRet(base, ean, resp, qtyOrder)
            /\ sent' = IF EstoquePrecoSends(base, ean) THEN 1 ELSE 0
            /\ UNCHANGED <<qtyOrder, marked, history>>

----------------------------------------------------------------------------

(* ean_lookup: the Extractor *)

Quote == "\""
KeyCodigoEan == <<Quote, "c", "o", "d", "i", "g", "o", "_", "e", "a", "n", Quote>>
KeyProduto == <<Quote, "p", "r", "o", "d", "u", "t", "o", Quote>>

PairCap == 50

\* A candidate pair (e, n): each half None (<<>>) or a str (<<s>>)
Pair(e, n) == [e |-> e, n |-> n]

\* Truth value of an optional str: None and "" are false
Truthy(o) == o # <<>> /\ o[1] # <<>>

Min(a, b) == IF a <= b THEN a ELSE b
Max(a, b) == IF a >= b THEN a ELSE b

LitAt(text, i, lit) ==
    i + Len(lit) - 1 <= Len(text) /\ SubSeq(text, i, i + Len(lit) - 1) = lit

\* The index after the longest run of characters of S that starts at i
RunEnd(text, i, S) ==
    LET stops == {j \in i..Len(text) : text[j] \notin S}
    IN  IF stops = {} THEN Max(i, Len(text) + 1) ELSE CHOOSE j \in stops : \A k \in stops : j <= k

\* "key"\s*:\s* at i: the index after it, or 0
KeyColonAt(text, i, key) ==
    IF ~LitAt(text, i, key) THEN 0
    ELSE LET c == RunEnd(text, i + Len(key), Whitespace)
         IN  IF c <= Len(text) /\ text[c] = ":"
             THEN RunEnd(text, c + 1, Whitespace) ELSE 0

\* r'"codigo_ean"\s*:\s*([0-9]+)' at i: [ok, grp, next]
EanMatchAt(text, i) ==
    LET d == KeyColonAt(text, i, KeyCodigoEan)
        z == RunEnd(text, d, Digits)
    IN  IF d # 0 /\ z > d
        THEN [ok |-> TRUE, grp |-> SubSeq(text, d, z - 1), next |-> z]
        ELSE [ok |-> FALSE, grp |-> <<>>, next |-> i + 1]

\* r'"produto"\s*:\s*"([^"]+)"' at i: [ok, grp, next]
NameMatchAt(text, i) ==
    LET d == KeyColonAt(text, i, KeyProduto)
        b == d + 1
        z == RunEnd(text, b, {text[k] : k \in 1..Len(text)} \ {Quote})
    IN  IF d # 0 /\ d <= Len(text) /\ text[d] = Quote /\ z > b /\ z <= Len(text)
        THEN [ok |-> TRUE, grp |-> SubSeq(text, b, z - 1), next |-> z + 1]
        ELSE [ok |-> FALSE, grp |-> <<>>, next |-> i + 1]

\* The first index from i on where lit starts, or 0 (a match can start nowhere else)
NextLit(text, i, lit) ==
    LET at == {j \in i..Len(text) : LitAt(text, j, lit)}
    IN  IF at = {} THEN 0 ELSE CHOOSE j \in at : \A k \in at : j <= k

\* re.findall with one group: the groups of the matches, left to right,
\* each search resuming where the last match ended
RECURSIVE FindEans(_, _)
FindEans(text, i) ==
    LET j == NextLit(text, i, KeyCodigoEan)
        m == EanMatchAt(text, j)
    IN  IF j = 0 THEN <<>>
        ELSE (IF m.ok THEN <<m.grp>> ELSE <<>>) \o FindEans(text, m.next)

RECURSIVE FindNames(_, _)
FindNames(text, i) ==
    LET j == NextLit(text, i, KeyProduto)
        m == NameMatchAt(text, j)
    IN  IF j = 0 THEN <<>>
        ELSE (IF m.ok THEN <<m.grp>> ELSE <<>>) \o FindNames(text, m.next)

\* The pairing loop of _extract_pairs_from_text over its two findall lists
PairUp(eans, names) ==
    LET lo == Min(Len(eans), Len(names))
        limit == IF lo # 0 THEN lo ELSE Max(Len(eans), Len(names))
        at(i) == Pair(IF i <= Len(eans) THEN <<eans[i]>> ELSE <<>>,
                      IF i <= Len(names) THEN <<names[i]>> ELSE <<>>)
        all == [i \in 1..Min(limit, PairCap) |-> at(i)]
    IN  SelectSeq(all, LAMBDA p : Truthy(p.e) \/ Truthy(p.n))

\* _extract_pairs_from_text(text)
ExtractPairsFromText(text) == PairUp(FindEans(text, 1), FindNames(text, 1))

EAN_KEYS == <<"ean", "ean_code", "codigo_ean", "barcode", "gtin">>
NAME_KEYS == <<"produto", "product", "name", "nome", "title", "descricao", "description">>

\* isinstance(v, (str, int)) and str(v).strip(): bool is a subclass of int
IsCodeValue(v) == v.t \in {"str", "int", "bool"} /\ Strip(PyStrOf(v)) # <<>>
IsNameValue(v) == v.t = "str" /\ Strip(v.s) # <<>>

\* The first key of keys, in order, whose value passes the test: its index or 0
FirstKey(f, keys, Test(_)) ==
    LET hits == {i \in 1..Len(keys) : HasKey(f, keys[i]) /\ Test(Get(f, keys[i]))}
    IN  IF hits = {} THEN 0 ELSE CHOOSE i \in hits : \A j \in hits : i <= j

\* try_obj(d): the pairs it appends (one or none)
TryObj(f) ==
    LET ke == FirstKey(f, EAN_KEYS, IsCodeValue)
        kn == FirstKey(f, NAME_KEYS, IsNameValue)
        e == IF ke = 0 THEN <<>> ELSE <<Strip(PyStrOf(Get(f, EAN_KEYS[ke])))>>
        n == IF kn = 0 THEN <<>> ELSE <<Strip(Get(f, NAME_KEYS[kn]).s)>>
    IN  IF Truthy(e) \/ Truthy(n) THEN <<Pair(e, n)>> ELSE <<>>

RECURSIVE MutWalk(_)
RECURSIVE MutWalkAll(_)
MutWalkAll(vals) ==
    IF vals = <<>> THEN <<>>
    ELSE (IF Head(vals).t = "dict" THEN MutWalk(Head(vals)) ELSE <<>>)
            \o MutWalkAll(Tail(vals))

\* A walk that follows arrays only into the objects they hold
MutWalk(payload) ==
    CASE payload.t = "dict" ->
            TryObj(payload.f) \o
            LET RECURSIVE Fields(_)
                Fields(f) ==
                    IF f = <<>> THEN <<>>
                    ELSE LET val == Head(f)[2]
                         IN  (CASE val.t = "dict" -> MutWalk(val)
                                [] val.t = "list" -> MutWalkAll(val.a)
                                [] val.t = "str" -> ExtractPairsFromText(val.s)
                                [] OTHER -> <<>>) \o Fields(Tail(f))
            IN  Fields(payload.f)
      [] payload.t = "list" -> MutWalkAll(payload.a)
      [] payload.t = "str" -> ExtractPairsFromText(payload.s)
      [] OTHER -> <<>>

RECURSIVE Walk(_)
RECURSIVE WalkAll(_)
\* for it in val: walk(it)
WalkAll(vals) ==
    IF vals = <<>> THEN <<>> ELSE Walk(Head(vals)) \o WalkAll(Tail(vals))

\* walk(payload): the pairs appended to `pairs`, in order
Walk(payload) ==
    CASE payload.t = "dict" ->
            TryObj(payload.f) \o
            LET RECURSIVE Fields(_)
                Fields(f) ==
                    IF f = <<>> THEN <<>>
                    ELSE LET val == Head(f)[2]
                         IN  (CASE val.t = "dict" -> Walk(val)
                                [] val.t = "list" -> WalkAll(val.a)
                                [] val.t = "str" -> ExtractPairsFromText(val.s)
                                [] OTHER -> <<>>) \o Fields(Tail(f))
            IN  Fields(payload.f)
      [] payload.t = "list" -> WalkAll(payload.a)
      [] payload.t = "str" -> ExtractPairsFromText(payload.s)
      [] OTHER -> <<>>

----------------------------------------------------------------------------
(* ean_lookup: the Scorer *)

\* _strip_accents: NFD, then drop the combining marks
StripAccentsChar(c) ==
    IF \E a \in Accented : a[1] = c THEN (CHOOSE a \in Accented : a[1] = c)[3]
    ELSE IF \E a \in Accented : a[2] = c THEN (CHOOSE a \in Accented : a[2] = c)[4]
    ELSE c

StripAccents(s) == [i \in 1..Len(s) |-> StripAccentsChar(s[i])] \o <<>>

\* [\w...]: letters, digits, "_" and the accented letters the class lists
WordChars ==
    {LowerLetters[i] : i \in 1..Len(LowerLetters)}
        \cup {UpperLetters[i] : i \in 1..Len(UpperLetters)}
        \cup Digits \cup {"_"} \cup {a[1] : a \in Accented} \cup {a[2] : a \in Accented}

\* (g|kg|ml|l|litro|un), in the order the alternation tries them
UNITS ==
    <<<<"g">>, <<"k", "g">>, <<"m", "l">>, <<"l">>, <<"l", "i", "t", "r", "o">>, <<"u", "n">>>>

TokenPoints == 2    \* 1.0, in halves
QtyPoints == 3      \* 1.5, in halves

\* re.findall(r"[\w...]+", qn): the tokens, left to right
RECURSIVE FindTokens(_, _)
FindTokens(qn, i) ==
    IF i > Len(qn) THEN <<>>
    ELSE LET z == RunEnd(qn, i, WordChars)
         IN  IF z > i THEN <<SubSeq(qn, i, z - 1)>> \o FindTokens(qn, z)
             ELSE FindTokens(qn, i + 1)

\* r"(\d+\s*(g|kg|ml|l|litro|un))" at i: [ok, grp, next]
QtyMatchAt(qn, i) ==
    LET d == RunEnd(qn, i, Digits)
        w == RunEnd(qn, d, Whitespace)
        hits == {u \in 1..Len(UNITS) : LitAt(qn, w, UNITS[u])}
        u == CHOOSE u \in hits : \A v \in hits : u <= v
    IN  IF d > i /\ hits # {}
        THEN [ok |-> TRUE, grp |-> SubSeq(qn, i, w + Len(UNITS[u]) - 1),
              next |-> w + Len(UNITS[u])]
        ELSE [ok |-> FALSE, grp |-> <<>>, next |-> i + 1]

RECURSIVE FindQtys(_, _)
FindQtys(qn, i) ==
    IF i > Len(qn) THEN <<>>
    ELSE LET m == QtyMatchAt(qn, i)
         IN  (IF m.ok THEN <<m.grp>> ELSE <<>>) \o FindQtys(qn, m.next)

\* How many of the strings of seq occur in nn
RECURSIVE CountIn(_, _)
CountIn(seq, nn) ==
    IF seq = <<>> THEN 0
    ELSE (IF Contains(nn, Head(seq)) THEN 1 ELSE 0) + CountIn(Tail(seq), nn)

MutScore(q, nome) ==
    IF ~Truthy(nome) THEN 0
    ELSE LET qn == StripAccents(Lower(q))
             nn == Lower(nome[1])
         IN  TokenPoints * CountIn(FindTokens(qn, 1), nn)
                + QtyPoints * CountIn(FindQtys(qn, 1), nn)

\* _score(q, nome), in halves of a point
Score(q, nome) ==
    IF ~Truthy(nome) THEN 0
    ELSE LET qn == StripAccents(Lower(q))
             nn == StripAccents(Lower(nome[1]))
         IN  TokenPoints * CountIn(FindTokens(qn, 1), nn)
                + QtyPoints * CountIn(FindQtys(qn, 1), nn)

----------------------------------------------------------------------------
(* ean_lookup: the Ranker and the summary *)

TOP_K == 3          \* [:3]
RELEVANT == 2       \* sc >= 1.0, in halves

\* scored = [(pn, _score(query, pn[1])) for pn in pairs]
Scored(q, pairs) == [i \in 1..Len(pairs) |-> [pn |-> pairs[i], sc |-> Score(q, pairs[i].n)]]

Take(seq, k) == SubSeq(seq, 1, Min(k, Len(seq)))

RECURSIVE Reverse(_)
Reverse(seq) == IF seq = <<>> THEN <<>> ELSE Append(Reverse(Tail(seq)), Head(seq))

\* x goes before the first entry that does not score above it
RECURSIVE InsertDesc(_, _)
InsertDesc(x, sorted) ==
    IF sorted = <<>> THEN <<x>>
    ELSE IF Head(sorted).sc <= x.sc THEN <<x>> \o sorted
    ELSE <<Head(sorted)>> \o InsertDesc(x, Tail(sorted))

RECURSIVE InsertAsc(_, _)
InsertAsc(x, sorted) ==
    IF sorted = <<>> THEN <<x>>
    ELSE IF Head(sorted).sc >= x.sc THEN <<x>> \o sorted
    ELSE <<Head(sorted)>> \o InsertAsc(x, Tail(sorted))

RECURSIVE SortedAsc(_)
SortedAsc(scored) ==
    IF scored = <<>> THEN <<>> ELSE InsertAsc(Head(scored), SortedAsc(Tail(scored)))

\* An ascending sort turned around: equal scores come out in reverse
MutSortedDesc(scored) == Reverse(SortedAsc(scored))

\* sorted(scored, key=lambda x: x[1], reverse=True): stable, highest first
RECURSIVE SortedDesc(_)
SortedDesc(scored) ==
    IF scored = <<>> THEN <<>> ELSE InsertDesc(Head(scored), SortedDesc(Tail(scored)))

IsRelevant(x) == x.sc >= RELEVANT

PairsOf(scored) == [i \in 1..Len(scored) |-> scored[i].pn]

MutTopRelevant(scored) == Take(PairsOf(SelectSeq(scored, IsRelevant)), TOP_K)

\* top_relevant
TopRelevant(scored) == Take(PairsOf(SelectSeq(SortedDesc(scored), IsRelevant)), TOP_K)

MutUsedPairsJson(q, pairs) ==
    LET scored == Scored(q, pairs)
    IN  IF TopRelevant(scored) # <<>> THEN TopRelevant(scored) ELSE PairsOf(SortedDesc(scored))

\* used_pairs on the JSON path: top_relevant if top_relevant else ordered[:3]
UsedPairsJson(q, pairs) ==
    LET scored == Scored(q, pairs)
    IN  IF TopRelevant(scored) # <<>> THEN TopRelevant(scored)
        ELSE Take(PairsOf(SortedDesc(scored)), TOP_K)

\* used_pairs on the raw-text path: the fallback is the scored list as extracted
UsedPairsText(q, pairs) ==
    LET scored == Scored(q, pairs)
    IN  IF TopRelevant(scored) # <<>> THEN TopRelevant(scored)
        ELSE Take(PairsOf(scored), TOP_K)

TxtArrozBranco1kg ==
    <<"A", "r", "r", "o", "z", " ", "B", "r", "a", "n", "c", "o", " ", "1", "k", "g">>
TxtRefriCola2L ==
    <<"R", "e", "f", "r", "i", "g", "e", "r", "a", "n", "t", "e", " ", "C", "o", "l", "a",
      " ", "2", "L">>
TxtRefriUva ==
    <<"R", "e", "f", "r", "i", "g", "e", "r", "a", "n", "t", "e", " ", "U", "v", "a">>
TxtFeijao500g == <<"F", "e", "i", "j", "a_tilde", "o", " ", "5", "0", "0", " ", "g">>
TxtSal == <<"S", "a", "l">>
TxtEan1 == <<"7", "8", "9", "1">>
TxtEan13 == <<"7", "8", "9", "1", "1", "4", "9", "1", "0", "3", "3", "0", "0">>
TxtHeader ==
    <<"E", "A", "N", "S", "_", "E", "N", "C", "O", "N", "T", "R", "A", "D", "O", "S", ":">>

QArroz1kg == <<"a", "r", "r", "o", "z", " ", "1", "k", "g">>
QRefri2l ==
    <<"r", "e", "f", "r", "i", "g", "e", "r", "a", "n", "t", "e", " ", "2", "l">>
QRefri == <<"r", "e", "f", "r", "i", "g", "e", "r", "a", "n", "t", "e">>
QFeijao == <<"F", "E", "I", "J", "A_tilde", "O", " ", "5", "0", "0", " ", "g">>


\* One line of the summary: "idx) e - n", "idx) e" or "idx) n"
SummaryLine(idx, p) ==
    NatChars(idx) \o <<")", " ">> \o
        (IF Truthy(p.e) /\ Truthy(p.n) THEN p.e[1] \o <<" ", "-", " ">> \o p.n[1]
         ELSE IF Truthy(p.e) THEN p.e[1] ELSE p.n[1])

\* _format_summary(pairs): the lines that "\n" joins; <<>> stands for None
FormatSummary(pairs) ==
    IF pairs = <<>> THEN <<>>
    ELSE LET idxs == SelectSeq([i \in 1..Len(pairs) |-> i],
                               LAMBDA i : Truthy(pairs[i].e) \/ Truthy(pairs[i].n))
         IN  <<TxtHeader>> \o [k \in 1..Len(idxs) |-> SummaryLine(idxs[k], pairs[idxs[k]])]

----------------------------------------------------------------------------
(* ean_lookup: sample queries and responses of the smart-responder *)

Queries == {QArroz1kg, QRefri2l, QRefri, QFeijao, <<>>}

Obj2(k1, v1, k2, v2) == PyDict(<<<<k1, v1>>, <<k2, v2>>>>)

CandArroz == Obj2("ean", PyStr(TxtEan1), "produto", PyStr(TxtArrozBranco1kg))
CandRefriCola == Obj2("nome", PyStr(TxtRefriCola2L), "ean", PyStr(<<"7", "8", "9", "2">>))
CandRefriUva == Obj2("barcode", PyStr(<<" ", "7", "8", "9", "3">>), "title", PyStr(TxtRefriUva))
CandFeijao == Obj2("codigo_ean", PyInt(7894), "descricao", PyStr(TxtFeijao500g))

Candidates == {CandArroz, CandRefriCola, CandRefriUva}

MaxCands == 4

\* Arrays of candidate objects, for the Ranker
FlatPayloads == {PyList(a) : a \in SeqsUpTo(Candidates, MaxCands) \ {<<>>}}

TxtEmbedded ==
    <<"{">> \o KeyCodigoEan \o <<":", " ", "7", "8", "9", "2", ",", " ">>
        \o KeyProduto \o <<":", " ", Quote>> \o TxtRefriCola2L \o <<Quote, "}">>

LeafPlain == PyDict(<<<<"id", PyInt(5)>>>>)

Leaves ==
    {CandArroz, CandFeijao, LeafPlain,
     Obj2("gtin", PyStr(TxtAbc), "name", PyStr(TxtSal)),
     Obj2("ean", PyStr(<<" ">>), "nome", PyStr(<<" ">>)),
     PyStr(TxtEmbedded),
     PyDict(<<<<"content", PyStr(TxtEmbedded)>>>>),
     PyInt(3)}

Wraps(t) ==
    {PyList(<<t>>),
     PyDict(<<<<"content", t>>>>),
     PyList(<<LeafPlain, t>>),
     PyDict(<<<<"produto", PyStr(TxtSal)>>, <<"items", PyList(<<t>>)>>>>)}

MaxDepth == 2

\* Payloads that nest a leaf under up to MaxDepth wrappers
RECURSIVE Nested(_)
Nested(d) ==
    IF d = 0 THEN Leaves
    ELSE Nested(d - 1) \cup UNION {Wraps(t) : t \in Nested(d - 1)}

FragEan == KeyCodigoEan \o <<":", " ">> \o TxtEan1
FragEanQuoted == KeyCodigoEan \o <<":", " ", Quote>> \o TxtEan1 \o <<Quote>>
FragArroz == KeyProduto \o <<":", " ", Quote>> \o TxtArrozBranco1kg \o <<Quote>>
FragRefri == KeyProduto \o <<":", Quote>> \o TxtRefriCola2L \o <<Quote>>

Fragments == {FragEan, FragArroz, FragRefri}

MaxFrags == 4

RECURSIVE Joined(_)
Joined(frags) ==
    IF frags = <<>> THEN <<>>
    ELSE IF Len(frags) = 1 THEN frags[1]
    ELSE frags[1] \o <<",", " ">> \o Joined(Tail(frags))

\* The spec's end-to-end text: the quoted code and the name, twice
TxtEndToEnd ==
    LET one == <<"{">> \o KeyCodigoEan \o <<":", " ", Quote>> \o TxtEan13 \o <<Quote, ",", " ">>
                   \o KeyProduto \o <<":", " ", Quote>> \o TxtArrozBranco1kg \o <<Quote, "}">>
    IN  one \o <<"\n">> \o one

\* Bodies that are not JSON: fragments joined by ", "
RawTexts ==
    {Joined(fs) : fs \in SeqsUpTo(Fragments, MaxFrags)} \cup {TxtEndToEnd, FragEanQuoted}

LookupResponses ==
    {Timeout, ConnError, Http(500, TextBody(TxtErr)), Http(404, JsonBody(CandArroz))}
        \cup {Http(200, JsonBody(d)) : d \in FlatPayloads \cup Nested(MaxDepth)}
        \cup {Http(200, TextBody(t)) : t \in RawTexts}

\* settings.smart_responder_url, and smart_responder_auth or smart_responder_token
ResponderUrls == {<<>>, <<<<" ">>>>, <<<<"h">>>>}
ResponderAuths == {<<>>, <<<<"t">>>>}

----------------------------------------------------------------------------
(* ean_lookup *)

EanLookupSends(url, auth) == Strip(OrEmpty(url)) # <<>> /\ Strip(OrEmpty(auth)) # <<>>

\* The candidate list of a response: walk(data), or the pairs of the raw text
\* when resp.json() raises
ExtractedPairs(resp) ==
    IF resp.body.json THEN Walk(resp.body.data) ELSE ExtractPairsFromText(resp.body.text)

UsedPairs(query, resp) ==
    IF resp.body.json THEN UsedPairsJson(query, ExtractedPairs(resp))
    ELSE UsedPairsText(query, ExtractedPairs(resp))

Lookup(summary, payload) == [t |-> "lookup", summary |-> summary, payload |-> payload]

\* "\n".join(lines)
RECURSIVE JoinLines(_)
JoinLines(lines) ==
    IF lines = <<>> THEN <<>>
    ELSE IF Len(lines) = 1 THEN lines[1]
    ELSE lines[1] \o <<"\n">> \o JoinLines(Tail(lines))

MutFinalRespText(summary, text) ==
    IF summary # <<>> THEN JoinLines(summary) \o <<"\n">> \o text ELSE text

\* The string the raw-text path returns: f"{summary}\n\n{text}", or text
FinalRespText(summary, text) ==
    IF summary # <<>> THEN JoinLines(summary) \o <<"\n", "\n">> \o text ELSE text

\* The result of the raw-text path, with the returned string spelled out
LookupText(summary, text) ==
    [t |-> "lookup", summary |-> summary, payload |-> PyStr(text),
     str |-> FinalRespText(summary, text)]

\* ean_lookup(query): the HTTP status is logged and not otherwise looked at
EanLookupRet(url, auth, query, resp) ==
    IF ~EanLookupSends(url, auth)
        THEN Returned("Erro: SMART_RESPONDER_URL/AUTH nao configurados no .env", PyNone)
    ELSE IF resp.kind = "timeout"
        THEN Returned("Erro: Timeout ao consultar smart-responder. Tente novamente.", PyNone)
    ELSE IF resp.kind = "connerr"
        THEN Returned("Erro ao consultar smart-responder", PyNone)
    ELSE LET summary == FormatSummary(UsedPairs(query, resp))
         IN  Returned(IF summary # <<>> THEN "summary+payload" ELSE "payload",
                      IF resp.body.json THEN Lookup(summary, resp.body.data)
                      ELSE LookupText(summary, resp.body.text))

EanLookup ==
    /\ call = NoCall
    /\ \E url \in ResponderUrls, auth \in ResponderAuths, query \in Queries :
        \E resp \in (IF EanLookupSends(url, auth) THEN LookupResponses ELSE {NoRequest}) :
            /\ call' = [fn |-> "ean_lookup", url |-> url, auth |-> auth,
                        query |-> query, resp |-> resp]
            /\ ret' = EanLookupRet(url, auth, query, resp)
            /\ sent' = IF EanLookupSends(url, auth) THEN 1 ELSE 0
            /\ UNCHANGED <<qtyOrder, marked, history>>

----------------------------------------------------------------------------
(* estoque, pedidos, alterar *)

TxtHtml == <<"<", "h", "t", "m", "l", ">">>
TxtTel == <<"8", "5", "9">>

\* What the supermarket API may answer to a simple request
ApiResponses ==
    {Timeout, ConnError,
     Http(200, JsonBody(PyDict(<<<<"id", PyInt(1)>>>>))),
     Http(201, JsonBody(PyList(<<>>))),
     Http(200, TextBody(TxtHtml)),
     Http(404, JsonBody(PyDict(<<>>))),
     Http(500, TextBody(TxtErr))}

\* The json_body argument: text that json.loads rejects, or a decoded order
OrderBodies ==
    {TextBody(TxtAbc),
     JsonBody(PyDict(<<<<"cliente", PyStr(TxtArroz)>>, <<"telefone", PyStr(TxtTel)>>>>)),
     JsonBody(PyDict(<<<<"cliente", PyStr(TxtArroz)>>, <<"telefone", PyStr(<<>>)>>>>)),
     JsonBody(PyDict(<<<<"cliente", PyStr(TxtArroz)>>>>))}

Urls == {<<"h", "/", "a">>, <<"h", "/", "b">>}
Phones == {TxtTel, <<"(", "8", "5", ")", "9">>, <<>>}

\* estoque(url).  response.json() on a body that is not JSON raises
\* requests.exceptions.JSONDecodeError, a RequestException, so the
\* RequestException clause (the earlier one) answers it.
EstoqueRet(resp) ==
    IF resp.kind = "timeout"
        THEN Returned("Erro: Timeout ao consultar estoque. Tente novamente.", PyNone)
    ELSE IF resp.kind = "connerr"
        THEN Returned("Erro ao consultar estoque", PyNone)
    ELSE IF IsHttpError(resp)
        THEN Returned("Erro HTTP ao consultar estoque", PyInt(resp.status))
    ELSE IF ~resp.body.json
        THEN Returned("Erro ao consultar estoque", PyNone)
    ELSE Returned("json", resp.body.data)

Estoque ==
    /\ call = NoCall
    /\ \E url \in Urls, resp \in ApiResponses :
        /\ call' = [fn |-> "estoque", url |-> url, resp |-> resp]
        /\ ret' = EstoqueRet(resp)
        /\ sent' = 1
        /\ UNCHANGED <<qtyOrder, marked, history>>

\* pedidos(json_body).  json.loads comes before the request; a response body
\* that is not JSON is answered by the first clause, json.JSONDecodeError.
PedidosRet(body, resp) ==
    IF ~body.json
        THEN Returned("Erro: O corpo da requisicao nao e um JSON valido.", PyNone)
    ELSE IF resp.kind = "timeout"
        THEN Returned("Erro: Timeout ao enviar pedido. Tente novamente.", PyNone)
    ELSE IF resp.kind = "connerr"
        THEN Returned("Erro ao enviar pedido", PyNone)
    ELSE IF IsHttpError(resp)
        THEN Returned("Erro HTTP ao enviar pedido", PyInt(resp.status))
    ELSE IF ~resp.body.json
        THEN Returned("Erro: O corpo da requisicao nao e um JSON valido.", PyNone)
    ELSE Returned("Pedido enviado com sucesso!", resp.body.data)

Pedidos ==
    /\ call = NoCall
    /\ \E body \in OrderBodies :
        \E resp \in (IF body.json THEN ApiResponses ELSE {NoRequest}) :
            /\ call' = [fn |-> "pedidos", json_body |-> body, resp |-> resp]
            /\ ret' = PedidosRet(body, resp)
            /\ sent' = IF body.json THEN 1 ELSE 0
            /\ UNCHANGED <<qtyOrder, marked, history>>

\* alterar(telefone, json_body): the try has a single clause, json.JSONDecodeError
AlterarRet(body, resp) ==
    IF ~body.json
        THEN Returned("Erro: O corpo da requisicao nao e um JSON valido.", PyNone)
    ELSE IF resp.kind = "timeout" THEN Raised("requests.exceptions.Timeout")
    ELSE IF resp.kind = "connerr" THEN Raised("requests.exceptions.ConnectionError")
    ELSE IF IsHttpError(resp) THEN Raised("requests.exceptions.HTTPError")
    ELSE IF ~resp.body.json
        THEN Returned("Erro: O corpo da requisicao nao e um JSON valido.", PyNone)
    ELSE Returned("Pedido atualizado com sucesso!", resp.body.data)

Alterar ==
    /\ call = NoCall
    /\ \E telefone \in Phones, body \in OrderBodies :
        \E resp \in (IF body.json THEN ApiResponses ELSE {NoRequest}) :
            /\ call' = [fn |-> "alterar", telefone |-> SelectSeq(telefone, IsDigit),
                        json_body |-> body, resp |-> resp]
            /\ ret' = AlterarRet(body, resp)
            /\ sent' = IF body.json THEN 1 ELSE 0
            /\ UNCHANGED <<qtyOrder, marked, history>>

----------------------------------------------------------------------------

(* pedidos_tool: the order tool of the agent (agent_langgraph_simple.py) *)

MsgInvalidJson ==
    <<"E", "r", "r", "o", ":", " ", "O", " ", "c", "o", "r", "p", "o", " ",
      "d", "a", " ", "r", "e", "q", "u", "i", "s", "i", "c_cedilla",
      "a_tilde", "o", " ", "n", "a_tilde", "o", " ", "e_acute", " ", "u",
      "m", " ", "J", "S", "O", "N", " ", "v", "a_acute", "l", "i", "d", "o",
      ".">>
MsgTimeout ==
    <<"E", "r", "r", "o", ":", " ", "T", "i", "m", "e", "o", "u", "t", " ",
      "a", "o", " ", "e", "n", "v", "i", "a", "r", " ", "p", "e", "d", "i",
      "d", "o", ".", " ", "T", "e", "n", "t", "e", " ", "n", "o", "v", "a",
      "m", "e", "n", "t", "e", ".">>
MsgHttpPrefix ==
    <<"E", "r", "r", "o", " ", "H", "T", "T", "P", " ", "a", "o", " ", "e",
      "n", "v", "i", "a", "r", " ", "p", "e", "d", "i", "d", "o", ":", " ">>
MsgConnPrefix ==
    <<"E", "r", "r", "o", " ", "a", "o", " ", "e", "n", "v", "i", "a", "r",
      " ", "p", "e", "d", "i", "d", "o", ":", " ">>
MsgSuccessPrefix ==
    <<"check_mark", " ", "P", "e", "d", "i", "d", "o", " ", "e", "n", "v",
      "i", "a", "d", "o", " ", "c", "o", "m", " ", "s", "u", "c", "e", "s",
      "s", "o", "!", "\n", "\n", "R", "e", "s", "p", "o", "s", "t", "a", " ",
      "d", "o", " ", "s", "e", "r", "v", "i", "d", "o", "r", ":", "\n">>

TxtSucesso == <<"s", "u", "c", "e", "s", "s", "o">>
TxtCheckMark == <<"check_mark">>

\* str(e) of a connection error, and an error page of the API
TxtRefused == <<"r", "e", "f", "u", "s", "e", "d">>
TxtSemSucesso == <<"S", "e", "m", " ", "s", "u", "c", "e", "s", "s", "o">>

\* The characters of the keys of the JSON answers
KeyText == ("id" :> <<"i", "d">>)

Spaces(n) == [i \in 1..n |-> " "]

\* json.dumps(v, indent=2, ensure_ascii=False) for ints, strings without
\* quotes or backslashes, lists and dicts
RECURSIVE JsonDumps(_, _), JsonItems(_, _, _)
JsonDumps(v, level) ==
    CASE v.t = "int" -> PyStrOf(v)
      [] v.t = "str" -> <<Quote>> \o v.s \o <<Quote>>
      [] v.t = "list" ->
            IF v.a = <<>> THEN <<"[", "]">>
            ELSE <<"[">> \o JsonItems(v, Len(v.a), level)
                    \o <<"\n">> \o Spaces(2 * level) \o <<"]">>
      [] v.t = "dict" ->
            IF v.f = <<>> THEN <<"{", "}">>
            ELSE <<"{">> \o JsonItems(v, Len(v.f), level)
                    \o <<"\n">> \o Spaces(2 * level) \o <<"}">>

\* The first n items of a list or dict, each on its own indented line
JsonItems(v, n, level) ==
    IF n = 0 THEN <<>>
    ELSE JsonItems(v, n - 1, level) \o (IF n > 1 THEN <<",">> ELSE <<>>)
            \o <<"\n">> \o Spaces(2 * (level + 1))
            \o (IF v.t = "list" THEN JsonDumps(v.a[n], level + 1)
                ELSE <<Quote>> \o KeyText[v.f[n][1]] \o <<Quote, ":", " ">>
                        \o JsonDumps(v.f[n][2], level + 1))

\* e.response.text: the body as sent; a JSON body is taken in its dumped form
ResponseText(body) == IF body.json THEN JsonDumps(body.data, 0) ELSE body.text

\* The string pedidos(json_body) returns, character by character
PedidosText(body, resp) ==
    IF ~body.json THEN MsgInvalidJson
    ELSE IF resp.kind = "timeout" THEN MsgTimeout
    ELSE IF resp.kind = "connerr" THEN MsgConnPrefix \o TxtRefused
    ELSE IF IsHttpError(resp)
        THEN MsgHttpPrefix \o NatChars(resp.status) \o <<" ", "-", " ">>
                \o ResponseText(resp.body)
    ELSE IF ~resp.body.json THEN MsgInvalidJson
    ELSE MsgSuccessPrefix \o JsonDumps(resp.body.data, 0)

\* bool(v) of a decoded JSON value
PyTruthy(v) ==
    CASE v.t = "str" -> v.s # <<>>
      [] v.t = "int" -> v.n # 0
      [] v.t = "float" -> v.m # 0
      [] v.t = "bool" -> v.b
      [] v.t = "none" -> FALSE
      [] v.t = "dict" -> v.f # <<>>
      [] v.t = "list" -> v.a # <<>>

\* "sucesso" in result.lower() or the check mark in result
SaysSuccess(result) == Contains(Lower(result), TxtSucesso) \/ Contains(result, TxtCheckMark)

\* The calls of mark_order_sent pedidos_tool makes after pedidos returned
\* result: json.loads, data.get("telefone", ""), and the call when truthy;
\* whatever raises on the way is swallowed by the bare except
MarkedBy(body, result) ==
    IF SaysSuccess(result) /\ body.json /\ body.data.t = "dict"
        /\ HasKey(body.data.f, "telefone") /\ PyTruthy(Get(body.data.f, "telefone"))
    THEN <<Get(body.data.f, "telefone")>>
    ELSE <<>>

\* json_body of the tool: the order bodies, an order that is a JSON list, and
\* an order whose telefone is a number
ToolBodies ==
    OrderBodies \cup
        {JsonBody(PyList(<<>>)),
         JsonBody(PyDict(<<<<"telefone", PyInt(859)>>>>))}

\* Answers to the POST: those of the API, and a rejection with an error page
ToolResponses == ApiResponses \cup {Http(400, TextBody(TxtSemSucesso))}

\* pedidos_tool(json_body)
PedidosTool ==
    /\ call = NoCall
    /\ \E body \in ToolBodies :
        \E resp \in (IF body.json THEN ToolResponses ELSE {NoRequest}) :
            /\ call' = [fn |-> "pedidos_tool", json_body |-> body, resp |-> resp]
            /\ ret' = PedidosRet(body, resp)
            /\ sent' = IF body.json THEN 1 ELSE 0
            /\ marked' = MarkedBy(body, PedidosText(body, resp))
            /\ UNCHANGED <<qtyOrder, history>>

----------------------------------------------------------------------------

(* run_agent_langgraph: one turn of the agent (agent_langgraph_simple.py) *)

TxtOla == <<"O", "l", "a_acute">>
TxtQueroArroz == <<"Q", "u", "e", "r", "o", " ", "a", "r", "r", "o", "z">>
TxtBoom == <<"b", "o", "o", "m">>

MsgNaoEntendi ==
    <<"D", "e", "s", "c", "u", "l", "p", "e", ",", " ", "n", "a_tilde", "o",
      " ", "e", "n", "t", "e", "n", "d", "i", ".">>
MsgProblema ==
    <<"T", "i", "v", "e", " ", "u", "m", " ", "p", "r", "o", "b", "l", "e",
      "m", "a", " ", "t", "e_acute", "c", "n", "i", "c", "o", ",", " ", "t",
      "e", "n", "t", "e", " ", "n", "o", "v", "a", "m", "e", "n", "t", "e",
      ".">>

\* mensagem: what the customer wrote
Mensagens == {TxtOla, TxtQueroArroz}

\* get_session_history and add_user_message: the handler cannot be built, the
\* handler is built and the insert raises, the message is stored
UserSaves == {"no_handler", "insert_raises", "stored"}

\* A message of the agent's result, by its content
AIMsg(content) == PyDict(<<<<"content", content>>>>)

\* agent.invoke (or get_agent_graph) raises with this str(e), or returns
AgentRaises(text) == [raises |-> TRUE, err |-> text]
AgentReturns(result) == [raises |-> FALSE, result |-> result]

AgentOutcomes ==
    {AgentRaises(TxtBoom), AgentRaises(<<>>),
     AgentReturns(PyDict(<<<<"messages", PyList(<<AIMsg(PyStr(TxtQueroArroz)),
                                                     AIMsg(PyStr(TxtOla))>>)>>>>)),
     AgentReturns(PyDict(<<<<"messages", PyList(<<AIMsg(PyList(<<>>))>>)>>>>)),
     AgentReturns(PyDict(<<<<"messages", PyList(<<>>)>>>>)),
     AgentReturns(PyNone)}

\* output: the content of the last message of the result, str() of it when it
\* is not a str, and the apology when the result has no message
AgentOutput(result) ==
    IF result.t = "dict" /\ HasKey(result.f, "messages")
        /\ PyTruthy(Get(result.f, "messages"))
    THEN LET messages == Get(result.f, "messages").a
             content == Get(messages[Len(messages)].f, "content")
         IN  PyStrOf(content)
    ELSE MsgNaoEntendi

UserMessage(text) == [role |-> "user", text |-> text]
AIMessage(text) == [role |-> "ai", text |-> text]

\* The dict run_agent_langgraph returns
AgentResult(output, error) == [t |-> "result", output |-> output, error |-> error]

\* What the call appends to the chat history.  history_handler keeps the
\* handler when add_user_message raised, so "if history_handler" is true
\* whenever the handler was built.
HistoryOf(mensagem, user, agent, aiStored) ==
    (IF user = "stored" THEN <<UserMessage(mensagem)>> ELSE <<>>)
        \o (IF ~agent.raises /\ user # "no_handler" /\ aiStored
            THEN <<AIMessage(AgentOutput(agent.result))>> ELSE <<>>)

RunAgentRet(agent) ==
    IF agent.raises THEN Returned("agent", AgentResult(MsgProblema, PyStr(agent.err)))
    ELSE Returned("agent", AgentResult(AgentOutput(agent.result), PyNone))

\* run_agent_langgraph(telefone, mensagem).  The media tag only changes the
\* message handed to the agent; the tools the agent calls are the actions above.
RunAgent ==
    /\ call = NoCall
    /\ \E mensagem \in Mensagens, user \in UserSaves, agent \in AgentOutcomes,
          aiStored \in BOOLEAN :
        /\ call' = [fn |-> "run_agent_langgraph", mensagem |-> mensagem, user |-> user,
                    agent |-> agent, aiStored |-> aiStored]
        /\ ret' = RunAgentRet(agent)
        /\ history' = HistoryOf(mensagem, user, agent, aiStored)
        /\ sent' = 0
        /\ UNCHANGED <<qtyOrder, marked>>

----------------------------------------------------------------------------

\* The caller takes the result; the process is ready for the next tool call
Finish ==
    /\ call # NoCall
    /\ call' = NoCall
    /\ ret' = NoResult
    /\ sent' = 0
    /\ marked' = <<>>
    /\ history' = <<>>
    /\ UNCHANGED qtyOrder

Init ==
    /\ qtyOrder \in QtyOrders
    /\ call = NoCall
    /\ ret = NoResult
    /\ sent = 0
    /\ marked = <<>>
    /\ history = <<>>

Next ==
    \/ Estoque
    \/ Pedidos
    \/ Alterar
    \/ EanLookup
    \/ EstoquePreco
    \/ PedidosTool
    \/ RunAgent
    \/ Finish

Spec == Init /\ [][Next]_vars
----------------------------------------------------------------------------
(* Properties of the Normalizer *)

\* estoque_preco got a JSON payload and returned the normalised list
Normalized == call.fn = "estoque_preco" /\ ret.out = "return" /\ ret.tag = "json"

SrcItems == ItemsOf(call.resp.body.data)
OutRecords == ret.body.a

\* A source record with positive stock: an object with a quantity alias whose
\* number is above zero
PositiveQtyRecord(it) ==
    /\ it.t = "dict"
    /\ \E i \in 1..Len(it.f) :
            /\ it.f[i][1] \in STOCK_QTY_KEYS
            /\ QtyFloat(it.f[i][2]).ok
            /\ QtyFloat(it.f[i][2]).m > 0

\* The source records of the emitted records, in order
KeptItems == SelectSeq(SrcItems, PositiveQtyRecord)

FieldSet(f) == {f[i] : i \in 1..Len(f)}

\* The first price alias the record holds, if any
FirstPriceKey(f) ==
    LET present == {i \in 1..Len(PRICE_KEYS) : HasKey(f, PRICE_KEYS[i])}
    IN  IF present = {} THEN <<>>
        ELSE <<PRICE_KEYS[CHOOSE i \in present : \A j \in present : i <= j]>>

\* What the spec expects of the price parser
ExpectedPrice(s) ==
    CASE s = Txt12c50 -> PyFloat(Dec(1250, 2))
      [] s = Txt1p234c56 -> PyFloat(Dec(123456, 2))
      [] s = Txt12p50 -> PyFloat(Dec(1250, 2))

\* C1: the price parser maps "12,50" to 12.50, "1.234,56" to 1234.56 and
\* "12.50" to 12.50: a kept record whose first price alias is `preco` with one
\* of these strings carries that number as its unified `preco`.
C1_PriceParsing ==
    Normalized /\ Len(OutRecords) = Len(KeptItems) =>
        \A i \in 1..Len(KeptItems) :
            LET f == KeptItems[i].f
            IN  (FirstPriceKey(f) = <<"preco">>
                    /\ Get(f, "preco").t = "str"
                    /\ Get(f, "preco").s \in {Txt12c50, Txt1p234c56, Txt12p50})
                => /\ HasKey(OutRecords[i].f, "preco")
                   /\ Get(OutRecords[i].f, "preco") = ExpectedPrice(Get(f, "preco").s)

\* C2: a record is emitted only if its source is an object with a quantity
\* alias whose number is above zero; status fields do not count.  The emitted
\* records are, one for one and in order, the source records with positive stock.
C2_OnlyPositiveQty ==
    Normalized =>
        /\ Len(OutRecords) = Len(KeptItems)
        /\ \A i \in 1..Len(OutRecords) :
                \A k \in {"nome", "status", "vl_produto"} :
                    HasKey(OutRecords[i].f, k) <=> HasKey(KeptItems[i].f, k)

\* C2 witness: of two source records, the one with quantity 0 and a status that
\* says available is dropped and the one with quantity 5 is emitted.
C2_Witness ==
    /\ Normalized
    /\ Len(SrcItems) = 2
    /\ SrcItems[1].t = "dict" /\ SrcItems[2].t = "dict"
    /\ HasKey(SrcItems[1].f, "estoque") /\ Get(SrcItems[1].f, "estoque") = PyInt(0)
    /\ ~HasKey(SrcItems[1].f, "quantidade")
    /\ StatusAvailable(SrcItems[1].f)
    /\ ~HasKey(SrcItems[2].f, "estoque")
    /\ HasKey(SrcItems[2].f, "quantidade") /\ Get(SrcItems[2].f, "quantidade") = PyInt(5)
    /\ Len(OutRecords) = 1
    /\ Get(OutRecords[1].f, "quantidade") = PyFloat(Dec(5, 0))

\* C3 as claimed: every source field that is not a quantity alias is in the
\* emitted record with exactly its original value.
C3_AllNonQtyFieldsKept ==
    Normalized /\ Len(OutRecords) = Len(KeptItems) =>
        \A i \in 1..Len(KeptItems) :
            \A p \in FieldSet(KeptItems[i].f) :
                p[1] \notin STOCK_QTY_KEYS => p \in FieldSet(OutRecords[i].f)

\* C3 amended: every source field that is neither a quantity alias nor `preco`
\* is in the emitted record with exactly its original value; `preco` keeps its
\* original value when no price alias of the record parses, and otherwise holds
\* the parsed price of the first alias that parses.
C3_NonQtyFieldsKeptButPreco ==
    Normalized /\ Len(OutRecords) = Len(KeptItems) =>
        \A i \in 1..Len(KeptItems) :
            LET f == KeptItems[i].f
                g == OutRecords[i].f
                parsing == {j \in 1..Len(PRICE_KEYS) :
                              HasKey(f, PRICE_KEYS[j]) /\ ParseFloat(Get(f, PRICE_KEYS[j])).ok}
            IN  /\ \A p \in FieldSet(f) :
                        p[1] \notin STOCK_QTY_KEYS \cup {"preco"} => p \in FieldSet(g)
                /\ parsing = {} =>
                        (HasKey(g, "preco") <=> HasKey(f, "preco"))
                            /\ (HasKey(f, "preco") => Get(g, "preco") = Get(f, "preco"))
                /\ parsing # {} =>
                        /\ HasKey(g, "preco")
                        /\ Get(g, "preco") =
                             PyFloat(ParseFloat(Get(f, PRICE_KEYS[
                                 CHOOSE j \in parsing : \A k \in parsing : j <= k])))

\* C3 witness: an emitted record that kept `nome` and `status` as they were
\* while its `preco`, the string "12,50", became the number 12.5.
C3_Witness ==
    /\ Normalized
    /\ Len(OutRecords) = 2 /\ Len(SrcItems) = 2
    /\ HasKey(SrcItems[1].f, "nome") /\ HasKey(SrcItems[1].f, "status")
    /\ Get(OutRecords[1].f, "nome") = PyStr(TxtArroz)
    /\ Get(OutRecords[1].f, "status") = PyStr(TxtDisponivel)
    /\ HasKey(SrcItems[2].f, "preco") /\ Get(SrcItems[2].f, "preco") = PyStr(Txt12c50)
    /\ ~HasKey(SrcItems[2].f, "vl_produto")
    /\ Get(OutRecords[2].f, "preco") = PyFloat(Dec(125, 1))

\* C4: normalising the Normalizer's own output gives the same list of records.
C4_Idempotent ==
    Normalized => Normalize(PyList(OutRecords), qtyOrder) = OutRecords

----------------------------------------------------------------------------
(* Properties of ean_lookup *)

\* ean_lookup got a response from the smart-responder
LookedUp == call.fn = "ean_lookup" /\ call.resp.kind = "http"

\* The Extractor's candidate list for that response, in extraction order
Candidates_ == ExtractedPairs(call.resp)

Range(seq) == {seq[i] : i \in 1..Len(seq)}

\* The numbered lines of the summary (without its heading)
SummaryEntries == IF ret.body.summary = <<>> THEN <<>> ELSE Tail(ret.body.summary)

NoneRelevant == \A p \in Range(Candidates_) : Score(call.query, p.n) < 2

\* C5: on both paths the summary lists at most 3 candidates, and when no
\* candidate scores 1.0 or more they are the first 3 candidates in extraction
\* order.
C5_AtMostThreeAndFallbackOrder ==
    LookedUp =>
        /\ Len(SummaryEntries) <= 3
        /\ NoneRelevant =>
            /\ Len(SummaryEntries) = Min(3, Len(Candidates_))
            /\ \A i \in 1..Len(SummaryEntries) :
                    SummaryEntries[i] = SummaryLine(i, Candidates_[i])

\* C5 witness: a JSON payload with four candidates, none relevant to the query,
\* the first two different; the summary lists the first three in that order.
C5_Witness ==
    /\ LookedUp
    /\ call.resp.body.json
    /\ Len(Candidates_) = 4
    /\ NoneRelevant
    /\ Candidates_[1] # Candidates_[2]
    /\ Candidates_[2] # Candidates_[3]
    /\ SummaryEntries = <<SummaryLine(1, Candidates_[1]), SummaryLine(2, Candidates_[2]),
                          SummaryLine(3, Candidates_[3])>>

FirstLineEndToEnd ==
    <<"1", ")", " ">> \o TxtEan13 \o <<" ", "-", " ">> \o TxtArrozBranco1kg

\* C6: for the raw text that holds "codigo_ean": "7891149103300" and
\* "produto": "Arroz Branco 1kg" twice and the query "arroz 1kg", the Extractor
\* yields the pair (7891149103300, Arroz Branco 1kg), its score has the 1.5
\* bonus for 1kg (two tokens and the bonus: 3.5), and the first summary line
\* shows the code and the name.
C6_EndToEnd ==
    (LookedUp /\ ~call.resp.body.json /\ call.resp.body.text = TxtEndToEnd
              /\ call.query = QArroz1kg) =>
        /\ Pair(<<TxtEan13>>, <<TxtArrozBranco1kg>>) \in Range(Candidates_)
        /\ Score(call.query, <<TxtArrozBranco1kg>>) = 2 + 2 + 3
        /\ SummaryEntries # <<>>
        /\ SummaryEntries[1] = FirstLineEndToEnd

\* Every node of a JSON tree: the tree, and the nodes of the values of its
\* objects and of the elements of its arrays
RECURSIVE NodeSet(_)
NodeSet(v) ==
    {v} \cup
        (CASE v.t = "dict" -> UNION {NodeSet(v.f[i][2]) : i \in 1..Len(v.f)}
           [] v.t = "list" -> UNION {NodeSet(v.a[i]) : i \in 1..Len(v.a)}
           [] OTHER -> {})

\* The pairs a node holds by itself
LocalPairs(node) ==
    CASE node.t = "dict" -> Range(TryObj(node.f))
      [] node.t = "str" -> Range(ExtractPairsFromText(node.s))
      [] OTHER -> {}

\* C7: the walk reaches every object, array and string node of the tree: the
\* pair of an object and the pairs of a string are in the candidate list
\* whatever the depth of the node.
C7_WalkReachesEveryNode ==
    (LookedUp /\ call.resp.body.json) =>
        LET found == Range(Candidates_)
        IN  \A node \in NodeSet(call.resp.body.data) : LocalPairs(node) \subseteq found

\* C7 witness: the pair sits in a JSON fragment inside the string field of a
\* wrapper object, itself inside an array nested in an array.
C7_Witness ==
    /\ LookedUp
    /\ call.resp.body.json
    /\ call.resp.body.data =
           PyList(<<PyList(<<PyDict(<<<<"content", PyStr(TxtEmbedded)>>>>)>>)>>)
    /\ Candidates_ = <<Pair(<<<<"7", "8", "9", "2">>>>, <<TxtRefriCola2L>>)>>

\* C8: every candidate pair has a half that is present and non-empty, and its
\* code, when present, is a string of digits only.
C8_PairWellFormed ==
    LookedUp =>
        \A p \in Range(Candidates_) :
            /\ Truthy(p.e) \/ Truthy(p.n)
            /\ p.e # <<>> => (p.e[1] # <<>> /\ AllIn(p.e[1], Digits))

\* The index after the longest run of characters of S from i on
LongestRunEnd(s, i, S) ==
    CHOOSE j \in i..(Len(s) + 1) :
        /\ \A k \in i..(j - 1) : s[k] \in S
        /\ j = Len(s) + 1 \/ s[j] \notin S

StartsRun(s, i, S) == s[i] \in S /\ (i = 1 \/ s[i - 1] \notin S)

\* The query's tokens: its longest runs of word characters, by where they start
TokenStarts(qn) == {i \in 1..Len(qn) : StartsRun(qn, i, WordChars)}
TokenFrom(qn, i) == SubSeq(qn, i, LongestRunEnd(qn, i, WordChars) - 1)

UnitSet == {<<"g">>, <<"k", "g">>, <<"m", "l">>, <<"l">>, <<"l", "i", "t", "r", "o">>, <<"u", "n">>}

\* Where the unit of a quantity that starts at i would start
UnitPos(qn, i) == LongestRunEnd(qn, LongestRunEnd(qn, i, Digits), Whitespace)
UnitsAt(qn, i) == {u \in UnitSet : LitAt(qn, UnitPos(qn, i), u)}

\* The query's quantities: digits, optional blanks, a unit
QtyStarts(qn) == {i \in 1..Len(qn) : StartsRun(qn, i, Digits) /\ UnitsAt(qn, i) # {}}
QtyFrom(qn, i) ==
    LET u == CHOOSE u \in UnitsAt(qn, i) : \A v \in UnitsAt(qn, i) : Len(u) <= Len(v)
    IN  SubSeq(qn, i, UnitPos(qn, i) + Len(u) - 1)

\* The score the spec describes, in halves of a point
DescribedScore(q, nome) ==
    IF nome = <<>> THEN 0
    ELSE LET qn == StripAccents(Lower(q))
             nn == StripAccents(Lower(nome[1]))
         IN  2 * Cardinality({i \in TokenStarts(qn) : Contains(nn, TokenFrom(qn, i))})
               + 3 * Cardinality({i \in QtyStarts(qn) : Contains(nn, QtyFrom(qn, i))})

\* C9: the score of a candidate is 1.0 for each query token found in its
\* normalized name plus 1.5 for each quantity of the query found in it; a
\* candidate without a name scores 0; "refrigerante 2l" scores higher than
\* "refrigerante" against "Refrigerante Cola 2L".
C9_ScoreAsDescribed ==
    LookedUp =>
        \A p \in Range(Candidates_) :
            /\ Score(call.query, p.n) = DescribedScore(call.query, p.n)
            /\ p.n = <<>> => Score(call.query, p.n) = 0
            /\ (call.query = QRefri2l /\ p.n = <<TxtRefriCola2L>>) =>
                    Score(call.query, p.n) > Score(QRefri, p.n)

\* C9 witness: "FEIJAO 500 g" with its tilde against the candidate
\* "Feijao 500 g" with its tilde: three tokens and the quantity, 4.5 points.
C9_Witness ==
    /\ LookedUp
    /\ call.query = QFeijao
    /\ \E p \in Range(Candidates_) :
            p.n = <<TxtFeijao500g>> /\ Score(call.query, p.n) = 9

----------------------------------------------------------------------------
(* Properties of the gateways *)

Gateways == {"estoque", "pedidos", "alterar", "ean_lookup", "estoque_preco"}

\* C10: when the outbound request of a gateway function times out or cannot
\* connect, the function returns an error string; nothing is raised.
C10_TransportFailureReturnsString ==
    (call.fn \in Gateways /\ call.resp.kind \in {"timeout", "connerr"}) =>
        ret.out = "return"

\* The tags of a successful ean_lookup result
LookupTags == {"summary+payload", "payload"}

\* C11: when the response to ean_lookup has an HTTP error status (4xx/5xx),
\* ean_lookup returns an error string and not the body processed as a
\* successful payload.
C11_HttpErrorGivesErrorString ==
    (LookedUp /\ IsHttpError(call.resp)) =>
        (ret.out = "return" /\ ret.tag \notin LookupTags)

\* The configuration ean_lookup needs is missing: no URL or no auth token
LookupConfigMissing ==
    Strip(OrEmpty(call.url)) = <<>> \/ Strip(OrEmpty(call.auth)) = <<>>

\* estoque_preco has no base URL, or its EAN argument holds no digit
StockArgsMissing ==
    \/ RStripSlash(Strip(OrEmpty(call.base))) = <<>>
    \/ \A i \in 1..Len(call.ean) : call.ean[i] \notin Digits

ConfigErrors ==
    {"Erro: SMART_RESPONDER_URL/AUTH nao configurados no .env",
     "Erro: ESTOQUE_EAN_BASE_URL nao configurado no .env",
     "Erro: EAN invalido. Informe apenas numeros."}

\* C12: ean_lookup without URL or auth token, and estoque_preco without base
\* URL or with an EAN that has no digit, return a descriptive error string and
\* send no request during that call.
C12_FailFastSendsNothing ==
    /\ (call.fn = "ean_lookup" /\ LookupConfigMissing) =>
            (ret.out = "return" /\ ret.tag \in ConfigErrors
                /\ sent = 0 /\ call.resp = NoRequest)
    /\ (call.fn = "estoque_preco" /\ StockArgsMissing) =>
            (ret.out = "return" /\ ret.tag \in ConfigErrors
                /\ sent = 0 /\ call.resp = NoRequest)

\* C12 witness: estoque_preco("ab") with the base URL configured returns the
\* invalid-EAN message and nothing was sent.
C12_Witness ==
    /\ call.fn = "estoque_preco"
    /\ RStripSlash(Strip(OrEmpty(call.base))) # <<>>
    /\ call.ean # <<>>
    /\ StockArgsMissing
    /\ ret.tag = "Erro: EAN invalido. Informe apenas numeros."
    /\ sent = 0

\* The score of the i-th extracted candidate for the query of the call
ScoreAt(i) == Score(call.query, Candidates_[i].n)

\* The scores of the extracted candidates, in extraction order
Scores ==
    LET cands == Candidates_
    IN  [i \in 1..Len(cands) |-> Score(call.query, cands[i].n)] \o <<>>

\* Positions of the candidates that score 1.0 or more
RelevantIn(sc) == {i \in 1..Len(sc) : sc[i] >= 2}

\* Candidate j comes before candidate i: higher score, or the same score and
\* extracted earlier
Before(sc, j, i) == sc[j] > sc[i] \/ (sc[j] = sc[i] /\ j < i)

\* How many relevant candidates come before candidate i
RankIn(sc, i) == Cardinality({j \in RelevantIn(sc) : Before(sc, j, i)})

\* C13: when some candidate scores 1.0 or more, the summary lists exactly the
\* (up to 3) best candidates among those scoring 1.0 or more, by decreasing
\* score and in extraction order among equal scores, and none below 1.0.
C13_TopRelevantByScore ==
    LookedUp =>
        LET sc == Scores
            cands == Candidates_
            entries == SummaryEntries
        IN  RelevantIn(sc) # {} =>
                /\ Len(entries) = Min(3, Cardinality(RelevantIn(sc)))
                /\ \A i \in RelevantIn(sc) :
                        RankIn(sc, i) < 3 =>
                            entries[RankIn(sc, i) + 1] =
                                SummaryLine(RankIn(sc, i) + 1, cands[i])

\* C13 witness: four candidates for "refrigerante 2l"; the third outscores the
\* first, the second is not relevant, the first and the fourth tie: the summary
\* is third, first, fourth.
C13_Witness ==
    /\ LookedUp
    /\ Len(Candidates_) = 4
    /\ ScoreAt(3) > ScoreAt(1)
    /\ ScoreAt(2) < 2
    /\ ScoreAt(1) = ScoreAt(4) /\ ScoreAt(1) >= 2
    /\ SummaryEntries = <<SummaryLine(1, Candidates_[3]), SummaryLine(2, Candidates_[1]),
                          SummaryLine(3, Candidates_[4])>>

\* The code matches and the name matches of the raw text of the response
CodeMatches == FindEans(call.resp.body.text, 1)
NameMatches == FindNames(call.resp.body.text, 1)

CompletePairs == {i \in 1..Len(Candidates_) : Candidates_[i].e # <<>> /\ Candidates_[i].n # <<>>}

\* C14: for a text with m code matches and n name matches the Extractor pairs
\* the i-th code with the i-th name, emits at most 50 pairs, and emits the
\* surplus of the longer list as pairs holding only the field that is there:
\* min(max(m, n), 50) pairs, of which min(m, n, 50) are complete.
C14_SurplusKeptAsIncompletePairs ==
    (LookedUp /\ ~call.resp.body.json) =>
        LET m == Len(CodeMatches)
            n == Len(NameMatches)
        IN  /\ Len(Candidates_) = Min(Max(m, n), PairCap)
            /\ Cardinality(CompletePairs) = Min(Min(m, n), PairCap)
            /\ \A i \in 1..Len(Candidates_) :
                    /\ Candidates_[i].e = IF i <= m THEN <<CodeMatches[i]>> ELSE <<>>
                    /\ Candidates_[i].n = IF i <= n THEN <<NameMatches[i]>> ELSE <<>>

\* The response came with a non-error status and a body that is not JSON
PlainTextAnswer ==
    call.resp.kind = "http" /\ ~IsHttpError(call.resp) /\ ~call.resp.body.json

C16_QuantidadePositiveAndDetermined ==
    Normalized =>
        /\ \A i \in 1..Len(OutRecords) :
                /\ HasKey(OutRecords[i].f, "quantidade")
                /\ Get(OutRecords[i].f, "quantidade").t = "float"
                /\ Get(OutRecords[i].f, "quantidade").m > 0
        /\ \A order \in QtyOrders :
                Normalize(call.resp.body.data, order) = OutRecords

----------------------------------------------------------------------------
(* Properties of pedidos_tool *)

\* The POST of the order was answered with a success status
OrderAccepted ==
    call.json_body.json /\ call.resp.kind = "http" /\ ~IsHttpError(call.resp)

\* The order body has a telefone that is not empty
HasTelefone ==
    /\ call.json_body.json
    /\ call.json_body.data.t = "dict"
    /\ \E i \in 1..Len(call.json_body.data.f) :
            /\ call.json_body.data.f[i][1] = "telefone"
            /\ call.json_body.data.f[i][2] \notin {PyStr(<<>>), PyInt(0), PyNone}

\* C17: pedidos_tool calls mark_order_sent only when the submission succeeded
\* (success status and the success message of pedidos) and the order body has
\* a non-empty telefone; after a failed submission (invalid JSON body, timeout,
\* HTTP error whatever its text, connection error) it never calls it.
C17_MarkOnlyAfterSuccess ==
    (call.fn = "pedidos_tool" /\ marked # <<>>) =>
        /\ OrderAccepted
        /\ ret = Returned("Pedido enviado com sucesso!", call.resp.body.data)
        /\ HasTelefone

----------------------------------------------------------------------------
(* Properties of run_agent_langgraph *)

AIAppended == \E i \in 1..Len(history) : history[i].role = "ai"

\* C18: in a call of run_agent_langgraph an AI message is appended to the
\* history only if the user message of the same call was appended before it
\* and the agent returned without raising; when the agent raises, no AI
\* message is appended and the function returns a result whose error is set.
C18_AIMessageOnlyAfterUserMessage ==
    call.fn = "run_agent_langgraph" =>
        /\ \A i \in 1..Len(history) :
                history[i].role = "ai" =>
                    /\ ~call.agent.raises
                    /\ \E j \in 1..(i - 1) : history[j] = UserMessage(call.mensagem)
        /\ call.agent.raises =>
                (~AIAppended /\ ret.out = "return" /\ ret.body.error # PyNone)

====
